---- MODULE Spec2Model ----
(***************************************************************************)
(* A model of collect_weather.py: the two provider clients with their      *)
(* retry loops (fetch_open_meteo, fetch_qweather), the CSV row sink        *)
(* (ensure_csv_header, write_csv_row) and the orchestrator (main).         *)
(*                                                                         *)
(* Spec       one run of main() with the default attempt budgets.          *)
(* FairSpec   Spec, with the thread of control running to the end of main. *)
(* SpecFetch  one direct call of either fetch routine, any budget.         *)
(* SpecCsv    any sequence of ensure_csv_header / write_csv_row calls.     *)
(***************************************************************************)
EXTENDS Integers, Sequences, FiniteSets, TLC

VARIABLES
    pc,        \* position of the single thread of control
    caller,    \* "main" | "direct" | "csv": who drives the routines
    apiKey,    \* QWEATHER_API_KEY (or the api_key argument)
    location,  \* the location argument of fetch_qweather, as given
    qwLoc,     \* the local `location` of fetch_qweather after normalisation
    retries,   \* the `retries` argument of the running fetch
    i,         \* the loop variable of the running fetch
    result,    \* outcome of the fetch that returned last
    csv0,      \* the file at CSV_PATH as the run found it
    csv,       \* the file at CSV_PATH: [exists, lines]
    out,       \* standard output, one entry per printed line
    log,       \* observable effects in order: calls, GETs, sleeps, writes
    clock      \* seconds elapsed (advanced by time.sleep)

vars == <<pc, caller, apiKey, location, qwLoc, retries, i, result,
          csv0, csv, out, log, clock>>

(***************************************************************************)
(* Bounds.                                                                 *)
(***************************************************************************)
\* largest attempt budget tried in a direct call of a fetch routine
MaxRetries == 3
\* largest number of row-sink calls in SpecCsv
MaxCalls == 4
\* integer literals "0".."MaxLiteral" are the numeric strings the model parses
MaxLiteral == 40

(***************************************************************************)
(* Program constants.                                                      *)
(***************************************************************************)
\* default of the `retries` parameter of both fetch routines
DefaultRetries == 3
\* argument of time.sleep in both retry loops
SleepSeconds == 2
\* the only HTTP status fetch_qweather accepts
HttpOk == 200

LOCATION_NAME == "Shenzhen"

fieldnames ==
    << "ts_iso", "ts_obs_iso", "location_name", "provider",
       "temp_c", "precip_mm_1h", "humidity_pct",
       "wind_speed_mps", "wind_dir_deg", "pressure_hpa",
       "weather_code_or_text", "weather_desc" >>

\* WMO code -> description (the Chinese texts of the table, in English)
WMO_WEATHER_CODES ==
    [c \in {0, 1, 2, 3, 45, 48, 51, 53, 55, 56, 57, 61, 63, 65, 66, 67,
            71, 73, 75, 77, 80, 81, 82, 85, 86, 95, 96, 99} |->
        CASE c = 0 -> "clear" [] c = 1 -> "mainly clear"
          [] c = 2 -> "partly cloudy" [] c = 3 -> "cloudy"
          [] c = 45 -> "fog" [] c = 48 -> "rime fog"
          [] c = 51 -> "light drizzle" [] c = 53 -> "moderate drizzle"
          [] c = 55 -> "dense drizzle"
          [] c = 56 -> "light freezing drizzle"
          [] c = 57 -> "dense freezing drizzle"
          [] c = 61 -> "light rain" [] c = 63 -> "moderate rain"
          [] c = 65 -> "heavy rain"
          [] c = 66 -> "light freezing rain" [] c = 67 -> "heavy freezing rain"
          [] c = 71 -> "light snow" [] c = 73 -> "moderate snow"
          [] c = 75 -> "heavy snow" [] c = 77 -> "snow grains"
          [] c = 80 -> "light showers" [] c = 81 -> "moderate showers"
          [] c = 82 -> "violent showers"
          [] c = 85 -> "light snow showers" [] c = 86 -> "heavy snow showers"
          [] c = 95 -> "thunderstorm"
          [] c = 96 -> "thunderstorm with slight hail"
          [] c = 99 -> "thunderstorm with heavy hail"]

(***************************************************************************)
(* Python values.  A float is held in thousandths (28.4 is 28400).         *)
(***************************************************************************)
PyNone == [t |-> "none"]
PyInt(n) == [t |-> "int", n |-> n]
PyFloat(m) == [t |-> "float", m |-> m]
PyStr(s) == [t |-> "str", s |-> s]
PyBool(b) == [t |-> "bool", b |-> b]
\* a JSON array where a scalar is expected
PyList == [t |-> "list"]

\* bool(x) for the values the program tests
Truthy(x) ==
    CASE x.t = "none" -> FALSE
      [] x.t = "int" -> x.n # 0
      [] x.t = "float" -> x.m # 0
      [] x.t = "str" -> x.s # ""
      [] x.t = "bool" -> x.b
      [] OTHER -> FALSE

\* the integer an integer literal denotes, or -1 when s is not one
ParseLiteral(s) ==
    IF \E k \in 0..MaxLiteral : ToString(k) = s
    THEN CHOOSE k \in 0..MaxLiteral : ToString(k) = s
    ELSE -1

\* float(x): the float, or PyNone where float() raises
ToFloat(x) ==
    CASE x.t = "int" -> PyFloat(1000 * x.n)
      [] x.t = "float" -> x
      [] x.t = "bool" -> PyFloat(IF x.b THEN 1000 ELSE 0)
      [] x.t = "str" ->
            IF ParseLiteral(x.s) >= 0 THEN PyFloat(1000 * ParseLiteral(x.s))
            ELSE PyNone
      [] OTHER -> PyNone

\* the value handed back as it came where float() raises
safe_float_KeepsInput(x) == IF ToFloat(x) = PyNone THEN x ELSE ToFloat(x)

\* safe_float(x, default=None): float(x), None on any exception
safe_float(x) == ToFloat(x)

\* the digits after the point of repr(float), f in thousandths (0..999)
Fraction(f) ==
    IF f % 100 = 0 THEN ToString(f \div 100)
    ELSE IF f % 10 = 0
         THEN (IF f < 100 THEN "0" ELSE "") \o ToString(f \div 10)
         ELSE (IF f < 10 THEN "00" ELSE IF f < 100 THEN "0" ELSE "")
              \o ToString(f)

\* str(x)
ToStr(x) ==
    CASE x.t = "none" -> "None"
      [] x.t = "int" -> ToString(x.n)
      [] x.t = "float" ->
            ToString(x.m \div 1000) \o "." \o Fraction(x.m % 1000)
      [] x.t = "str" -> x.s
      [] x.t = "bool" -> IF x.b THEN "True" ELSE "False"
      [] OTHER -> "[]"

\* int(x) raises: None, an array, a string that is no integer literal
IntRaises(x) ==
    CASE x.t \in {"int", "float", "bool"} -> FALSE
      [] x.t = "str" -> ParseLiteral(x.s) < 0
      [] OTHER -> TRUE

\* int(x) where it does not raise; a float (>= 0 here) loses its fraction
ToInt(x) ==
    CASE x.t = "int" -> x.n
      [] x.t = "float" -> x.m \div 1000
      [] x.t = "bool" -> IF x.b THEN 1 ELSE 0
      [] x.t = "str" -> ParseLiteral(x.s)
      [] OTHER -> -1

\* the table indexed without a default: a code off the table raises
\* KeyError, which the handler turns into str(code)
decode_weather_NoDefault(code) ==
    IF ~IntRaises(code) /\ ToInt(code) \in DOMAIN WMO_WEATHER_CODES
    THEN WMO_WEATHER_CODES[ToInt(code)]
    ELSE IF code # PyNone THEN ToStr(code) ELSE ""

\* lines 52-56: the table entry of int(code), "unknown(<int>)" off the
\* table; str(code), or "" for None, where int(code) raises
decode_weather(code) ==
    IF ~IntRaises(code)
    THEN IF ToInt(code) \in DOMAIN WMO_WEATHER_CODES
         THEN WMO_WEATHER_CODES[ToInt(code)]
         ELSE "unknown(" \o ToString(ToInt(code)) \o ")"
    ELSE IF code # PyNone THEN ToStr(code) ELSE ""

\* the closure kmh_to_mps of fetch_qweather: float(x) / 3.6
kmh_to_mps(x) ==
    IF ToFloat(x) = PyNone THEN PyNone
    ELSE PyFloat((ToFloat(x).m * 10) \div 36)

now_cn_iso == PyStr("T+" \o ToString(clock))

(***************************************************************************)
(* Upstream responses.  One element is what one requests.get can meet:     *)
(* net    "ok", or the transport failure ("ConnectionError", "Timeout")    *)
(* status the HTTP status                                                  *)
(* json   "invalid" (r.json() raises), "array" (valid JSON, not an         *)
(*        object), "object"                                                *)
(* body   the decoded object                                               *)
(***************************************************************************)
NoBody == [t |-> "nobody"]
\* a JSON null where an object is expected
Null == [t |-> "null"]

Failure(net) == [net |-> net, status |-> 0, json |-> "invalid", body |-> NoBody]
Reply(status, json, body) ==
    [net |-> "ok", status |-> status, json |-> json, body |-> body]

\* the "current" object of an Open-Meteo body (a missing key reads as None)
Current(temp, precip, hum, wind, dir, pres, code) ==
    [temperature_2m |-> temp, precipitation |-> precip,
     relative_humidity_2m |-> hum, wind_speed_10m |-> wind,
     wind_direction_10m |-> dir, pressure_msl |-> pres, weather_code |-> code]

EmptyCurrent == Current(PyNone, PyNone, PyNone, PyNone, PyNone, PyNone, PyNone)

\* cur: Null when data["current"] is null, else the object
\* (data without the key reads as the empty object)
OMBody(cur) == [t |-> "om", current |-> cur]

OMBodies ==
    { OMBody(Current(PyFloat(28400), PyFloat(0), PyInt(70), PyFloat(18000),
                     PyInt(90), PyFloat(1008200), PyInt(3))),
      OMBody(Current(PyStr("n/a"), PyNone, PyInt(55), PyInt(36),
                     PyNone, PyStr("30"), PyInt(4))),
      OMBody(EmptyCurrent),
      OMBody(Null) }

OMResponses ==
    { Failure("ConnectionError"), Failure("Timeout"),
      Reply(500, "invalid", NoBody), Reply(429, "object", OMBody(EmptyCurrent)),
      Reply(200, "invalid", NoBody), Reply(200, "array", NoBody) }
    \cup { Reply(200, "object", b) : b \in OMBodies }

\* the "now" object of a QWeather body (a missing key reads as None,
\* a missing obsTime as "")
Now(temp, precip, hum, wind, dir, pres, icon, text, obs) ==
    [temp |-> temp, precip |-> precip, humidity |-> hum, windSpeed |-> wind,
     wind360 |-> dir, pressure |-> pres, icon |-> icon, text |-> text,
     obsTime |-> obs]

EmptyNow ==
    Now(PyNone, PyNone, PyNone, PyNone, PyNone, PyNone, PyNone, PyNone, PyStr(""))

\* code: j.get("code"); now: Null when j["now"] is null, else the object
QWBody(code, now) == [t |-> "qw", code |-> code, now |-> now]

QWBodies ==
    { QWBody(PyStr("200"),
             Now(PyStr("28"), PyStr("0"), PyStr("70"), PyStr("18"),
                 PyStr("90"), PyStr("1008"), PyStr("101"), PyStr("cloudy"),
                 PyStr("2025-08-01T14:00+08:00"))),
      QWBody(PyStr("200"),
             Now(PyStr("--"), PyNone, PyStr("55"), PyStr("fast"),
                 PyNone, PyStr("30"), PyNone, PyStr("rain"), PyNone)),
      QWBody(PyStr("200"), EmptyNow),
      QWBody(PyStr("200"), Null),
      QWBody(PyStr("401"), EmptyNow),
      QWBody(PyStr("429"), EmptyNow),
      QWBody(PyInt(200), EmptyNow),
      QWBody(PyNone, EmptyNow) }

QWResponses ==
    { Failure("ConnectionError"), Failure("Timeout"),
      Reply(500, "invalid", NoBody), Reply(429, "object", QWBody(PyNone, EmptyNow)),
      Reply(204, "invalid", NoBody),
      Reply(200, "invalid", NoBody), Reply(200, "array", NoBody) }
    \cup { Reply(200, "object", b) : b \in QWBodies }

(***************************************************************************)
(* Locations.  A location is text, held as the sequence of its characters: *)
(* "440300" is << "4", "4", "0", "3", "0", "0" >>.  The texts tried are    *)
(* made of digits, ".", ",", a sign, a blank and a letter, so the numbers  *)
(* float() accepts among them are the plain decimals; a number is held as  *)
(* its sign, its integer part and its fraction in millionths.              *)
(***************************************************************************)
Digits == {"0", "1", "2", "3", "4", "5", "6", "7", "8", "9"}
DigitVal(c) == CHOOSE k \in 0..9 : ToString(k) = c

\* the number a run of digits denotes (0 for none)
DigitsVal(ds) ==
    LET val[k \in 0..Len(ds)] ==
            IF k = 0 THEN 0 ELSE 10 * val[k - 1] + DigitVal(ds[k])
    IN val[Len(ds)]

RECURSIVE Split(_)
\* text.split(",")
Split(text) ==
    IF \E k \in 1..Len(text) : text[k] = ","
    THEN LET k == CHOOSE j \in 1..Len(text) :
                     text[j] = "," /\ \A m \in 1..(j - 1) : text[m] # ","
         IN << SubSeq(text, 1, k - 1) >> \o Split(SubSeq(text, k + 1, Len(text)))
    ELSE << text >>

RECURSIVE Strip(_)
\* text.strip(), which float() applies to its argument
Strip(text) ==
    IF text # << >> /\ text[1] = " " THEN Strip(Tail(text))
    ELSE IF text # << >> /\ text[Len(text)] = " "
         THEN Strip(SubSeq(text, 1, Len(text) - 1))
         ELSE text

Unsigned(text) ==
    IF text # << >> /\ text[1] \in {"+", "-"} THEN Tail(text) ELSE text

\* digits with at most one ".", and at least one digit
IsDecimal(text) ==
    /\ \A k \in 1..Len(text) : text[k] \in Digits \cup {"."}
    /\ Cardinality({ k \in 1..Len(text) : text[k] = "." }) <= 1
    /\ \E k \in 1..Len(text) : text[k] \in Digits

\* float(text) does not raise
IsFloatText(text) == IsDecimal(Unsigned(Strip(text)))

\* float(text), for a text float() accepts with up to six decimals
FloatOf(text) ==
    LET float[t \in {Unsigned(Strip(text))}] ==
            LET d == IF \E k \in 1..Len(t) : t[k] = "."
                     THEN CHOOSE k \in 1..Len(t) : t[k] = "." ELSE Len(t) + 1
            IN [neg |-> Strip(text)[1] = "-",
                int |-> DigitsVal(SubSeq(t, 1, d - 1)),
                frac |-> DigitsVal([k \in 1..6 |->
                                      IF d + k <= Len(t) THEN t[d + k] ELSE "0"])]
    IN float[Unsigned(Strip(text))]

\* the fraction cut after two decimals instead of rounded
Round2_Truncates(u) == u \div 10000

\* the hundredths nearest to a fraction in millionths (no fraction tried
\* lies halfway)
Round2(u) == (u + 5000) \div 10000

\* the decimal digits of n >= 0
IntText(n) ==
    LET text[m \in 0..n] ==
            IF m < 10 THEN << ToString(m) >>
            ELSE Append(text[m \div 10], ToString(m % 10))
    IN text[n]

\* f"{x:.2f}"
Format2(x) ==
    LET fixed[h \in {Round2(x.frac)}] ==
            (IF x.neg THEN << "-" >> ELSE << >>)
            \o (IF h = 100 THEN IntText(x.int + 1) \o << ".", "0", "0" >>
                ELSE IntText(x.int)
                     \o << ".", ToString(h \div 10), ToString(h % 10) >>)
    IN fixed[Round2(x.frac)]

\* lines 114-119: two parts that float() accepts are rewritten, any other
\* text is kept as it is
\* (parts, x and y are each computed once, as lines 115-116 bind loc_lon,
\* loc_lat and the two floats)
NormalizeLocation(loc) ==
    LET rewrite[parts \in {Split(loc)}] ==
            IF Len(parts) = 2 /\ IsFloatText(parts[1]) /\ IsFloatText(parts[2])
            THEN LET lon[x \in {FloatOf(parts[1])}] == Format2(x)
                     lat[y \in {FloatOf(parts[2])}] == Format2(y)
                 IN lon[FloatOf(parts[1])] \o << "," >> \o lat[FloatOf(parts[2])]
            ELSE loc
    IN rewrite[Split(loc)]

\* f"{LON},{LAT}", the default of QWEATHER_LOCATION: "114.057865,22.543096"
DefaultLocation ==
    << "1", "1", "4", ".", "0", "5", "7", "8", "6", "5", ",",
       "2", "2", ".", "5", "4", "3", "0", "9", "6" >>

\* the default, a LocationID, and a text with one numeric part only
Locations ==
    { DefaultLocation,
      << "4", "4", "0", "3", "0", "0" >>,
      << "1", "1", "4", ".", "0", "5", "7", "6", ",", "x" >> }

\* longest location text of which every instance is tried
MaxLocLen == 4

LocAlphabet == {"1", "4", ".", ",", "-", " ", "x"}

\* "114.0576,22.5431"
SampleLonLat ==
    << "1", "1", "4", ".", "0", "5", "7", "6", ",",
       "2", "2", ".", "5", "4", "3", "1" >>
\* "114.06,22.54"
SampleLonLat2 ==
    << "1", "1", "4", ".", "0", "6", ",", "2", "2", ".", "5", "4" >>
\* "9.996,-0.004" and "10.00,-0.00"
SampleCarry ==
    << "9", ".", "9", "9", "6", ",", "-", "0", ".", "0", "0", "4" >>
SampleCarry2 ==
    << "1", "0", ".", "0", "0", ",", "-", "0", ".", "0", "0" >>
\* "440300"
SampleId == << "4", "4", "0", "3", "0", "0" >>
\* "1.5,2.5,3.5"
SampleThree == << "1", ".", "5", ",", "2", ".", "5", ",", "3", ".", "5" >>

LocationTexts ==
    UNION { [1..n -> LocAlphabet] : n \in 0..MaxLocLen }
    \cup Locations
    \cup { SampleLonLat, SampleLonLat2, SampleCarry, SampleId, SampleThree }

ApiKeys == { "", "k3y" }

(***************************************************************************)
(* The rows the two clients build (lines 86-99 and 151-164).               *)
(***************************************************************************)
\* the collection time put into ts_obs_iso as well
OpenMeteoRow_ObsIsCollection(cur) ==
    [ts_iso |-> now_cn_iso,
     ts_obs_iso |-> now_cn_iso,
     location_name |-> PyStr(LOCATION_NAME),
     provider |-> PyStr("open-meteo"),
     temp_c |-> safe_float(cur.temperature_2m),
     precip_mm_1h |-> safe_float(cur.precipitation),
     humidity_pct |-> safe_float(cur.relative_humidity_2m),
     wind_speed_mps |-> safe_float(cur.wind_speed_10m),
     wind_dir_deg |-> safe_float(cur.wind_direction_10m),
     pressure_hpa |-> safe_float(cur.pressure_msl),
     weather_code_or_text |-> PyStr(ToStr(cur.weather_code)),
     weather_desc |-> PyStr(decode_weather(cur.weather_code))]

OpenMeteoRow(cur) ==
    [ts_iso |-> now_cn_iso,
     ts_obs_iso |-> PyStr(""),
     location_name |-> PyStr(LOCATION_NAME),
     provider |-> PyStr("open-meteo"),
     temp_c |-> safe_float(cur.temperature_2m),
     precip_mm_1h |-> safe_float(cur.precipitation),
     humidity_pct |-> safe_float(cur.relative_humidity_2m),
     wind_speed_mps |-> safe_float(cur.wind_speed_10m),
     wind_dir_deg |-> safe_float(cur.wind_direction_10m),
     pressure_hpa |-> safe_float(cur.pressure_msl),
     weather_code_or_text |-> PyStr(ToStr(cur.weather_code)),
     weather_desc |-> PyStr(decode_weather(cur.weather_code))]

QWeatherRow(now) ==
    [ts_iso |-> now_cn_iso,
     ts_obs_iso |-> now.obsTime,
     location_name |-> PyStr(LOCATION_NAME),
     provider |-> PyStr("qweather"),
     temp_c |-> safe_float(now.temp),
     precip_mm_1h |-> safe_float(now.precip),
     humidity_pct |-> safe_float(now.humidity),
     wind_speed_mps |-> kmh_to_mps(now.windSpeed),
     wind_dir_deg |-> safe_float(now.wind360),
     pressure_hpa |-> safe_float(now.pressure),
     weather_code_or_text |-> IF Truthy(now.icon) THEN now.icon ELSE now.text,
     weather_desc |-> now.text]

(***************************************************************************)
(* What one pass through the try block of a retry loop comes to.           *)
(***************************************************************************)
Raised(e) == [kind |-> "raise", err |-> e]
Returned(row) == [kind |-> "row", row |-> row]
ReturnedNone == [kind |-> "none"]
Pending == [kind |-> "pending"]

\* lines 82-100: raise_for_status rejects 4xx and 5xx
OpenMeteoTry(resp) ==
    IF resp.net # "ok" THEN Raised(resp.net)
    ELSE IF resp.status >= 400 THEN Raised("HTTPError")
    ELSE IF resp.json = "invalid" THEN Raised("JSONDecodeError")
    ELSE IF resp.json # "object" THEN Raised("AttributeError")
    ELSE IF resp.body.current = Null THEN Raised("AttributeError")
    ELSE Returned(OpenMeteoRow(resp.body.current))

\* lines 128-165; "http" is the non-200 branch, "code" the api-code branch
QWeatherTry(resp) ==
    IF resp.net # "ok" THEN Raised(resp.net)
    ELSE IF resp.status # HttpOk THEN [kind |-> "http", status |-> resp.status]
    ELSE IF resp.json = "invalid" THEN Raised("JSONDecodeError")
    ELSE IF resp.json # "object" THEN Raised("AttributeError")
    ELSE IF resp.body.code # PyStr("200")
         THEN [kind |-> "code", code |-> resp.body.code]
    ELSE IF resp.body.now = Null THEN Raised("AttributeError")
    ELSE Returned(QWeatherRow(resp.body.now))

(***************************************************************************)
(* The row sink.                                                           *)
(***************************************************************************)
NoFile == [exists |-> FALSE, lines |-> << >>]

\* the text csv.writer puts in a cell: None is written as the empty string
Cell(x) == IF x.t = "none" THEN "" ELSE ToStr(x)

\* line 69: the cells of one record, "" for a key the row lacks
CsvLine(row) ==
    [k \in 1..Len(fieldnames) |->
        IF fieldnames[k] \in DOMAIN row THEN Cell(row[fieldnames[k]]) ELSE ""]

\* the existence test left out: the file is rewritten on every call
ensure_csv_header_Always(f) ==
    [exists |-> TRUE, lines |-> << fieldnames >>]

\* the file created without its header
ensure_csv_header_NoHeader(f) ==
    IF ~f.exists THEN [exists |-> TRUE, lines |-> << >>] ELSE f

\* ensure_csv_header: open(path, "w") and the header, only if path is absent
ensure_csv_header(f) ==
    IF ~f.exists THEN [exists |-> TRUE, lines |-> << fieldnames >>] ELSE f

\* the file opened with "w" instead of "a": earlier records are lost
write_csv_row_Truncates(f, row) ==
    [exists |-> TRUE,
     lines |-> << fieldnames, CsvLine(row) >>]

\* write_csv_row: the header if needed, then one appended record
write_csv_row(f, row) ==
    [exists |-> TRUE,
     lines |-> Append(ensure_csv_header(f).lines, CsvLine(row))]

(***************************************************************************)
(* Effects.                                                                *)
(***************************************************************************)
Ev(e) == [ev |-> e]
\* one requests.get: when it was issued, what the try block made of it
\* and, for fetch_open_meteo, the exception it ended in ("" if none)
GetEv(e, r, err) == [ev |-> e, at |-> clock, outcome |-> r.kind, err |-> err]
ErrOf(r) == IF r.kind = "raise" THEN r.err ELSE ""
\* a return (or raise) of a fetch routine to its caller
ReturnEv(e, res) == [ev |-> e, res |-> res]
WriteEv(line) == [ev |-> "write", line |-> line]
\* one printed line: "[OK] open-meteo ...", "[ERR] qweather http 500", ...
Line(level, provider, what) ==
    [level |-> level, provider |-> provider, what |-> what]

(***************************************************************************)
(* fetch_open_meteo, lines 80-104.                                         *)
(***************************************************************************)
\* the last pass taken to be the one after the budget
OpenMeteoLast_OffByOne(k, n) == k = n

\* line 102: i == retries - 1
OpenMeteoLast(k, n) == k = n - 1

\* lines 100-104: a row is returned; an exception is re-raised on the last
\* pass and otherwise slept on (Pending)
OpenMeteoStep(r, k, n) ==
    IF r.kind = "row" THEN r
    ELSE IF OpenMeteoLast(k, n) THEN r
    ELSE Pending

\* one pass of the for loop up to its return, raise or sleep; with the
\* range exhausted the function falls off its end and returns None
OpenMeteoAttempt ==
    /\ pc = "om_loop"
    /\ IF i >= retries
       THEN /\ result' = ReturnedNone
            /\ pc' = "om_ret"
            /\ log' = Append(log, ReturnEv("om_return", ReturnedNone))
       ELSE \E resp \in OMResponses :
              LET r == OpenMeteoTry(resp)
                  res == OpenMeteoStep(r, i, retries)
              IN
              /\ result' = res
              /\ IF res = Pending
                 THEN /\ pc' = "om_sleep"
                      /\ log' = Append(log, GetEv("om_get", r, ErrOf(r)))
                 ELSE /\ pc' = "om_ret"
                      /\ log' = log \o << GetEv("om_get", r, ErrOf(r)),
                                          ReturnEv("om_return", res) >>
    /\ UNCHANGED <<caller, apiKey, location, qwLoc, retries, i, csv0, csv, out, clock>>

\* line 104, then the next value of the range
OpenMeteoSleep ==
    /\ pc = "om_sleep"
    /\ clock' = clock + SleepSeconds
    /\ i' = i + 1
    /\ log' = Append(log, Ev("om_sleep"))
    /\ pc' = "om_loop"
    /\ UNCHANGED <<caller, apiKey, location, qwLoc, retries, result, csv0, csv, out>>

(***************************************************************************)
(* fetch_qweather, lines 107-170.                                          *)
(***************************************************************************)
\* the key test left out
KeyMissing_Never(k) == FALSE

\* line 109: not api_key
KeyMissing(k) == k = ""

\* the last pass taken to be the one after the budget
QWeatherLast_OffByOne(k, n) == k = n

\* lines 132 and 167: i == retries - 1
QWeatherLast(k, n) == k = n - 1

\* the api-code branch taken to be transient like the non-200 branch
QWeatherStep_CodeRetried(r, k, n) ==
    CASE r.kind = "row" ->
           [res |-> r, says |-> << >>]
      [] r.kind = "http" ->
           [res |-> IF QWeatherLast(k, n) THEN ReturnedNone ELSE Pending,
            says |-> << Line("ERR", "qweather", "http") >>]
      [] r.kind = "code" ->
           [res |-> IF QWeatherLast(k, n) THEN ReturnedNone ELSE Pending,
            says |-> << Line("ERR", "qweather", "code") >>]
      [] OTHER ->
           IF QWeatherLast(k, n)
           THEN [res |-> ReturnedNone,
                 says |-> << Line("ERR", "qweather", "exception") >>]
           ELSE [res |-> Pending, says |-> << >>]

\* the last pass's exception re-raised, as fetch_open_meteo does
QWeatherStep_Reraise(r, k, n) ==
    CASE r.kind = "row" ->
           [res |-> r, says |-> << >>]
      [] r.kind = "http" ->
           [res |-> IF QWeatherLast(k, n) THEN ReturnedNone ELSE Pending,
            says |-> << Line("ERR", "qweather", "http") >>]
      [] r.kind = "code" ->
           [res |-> ReturnedNone,
            says |-> << Line("ERR", "qweather", "code") >>]
      [] OTHER ->
           IF QWeatherLast(k, n)
           THEN [res |-> r,
                 says |-> << Line("ERR", "qweather", "exception") >>]
           ELSE [res |-> Pending, says |-> << >>]

\* lines 130-170: what one pass comes to (res: the return value, or Pending
\* for a sleep and another pass) and what it prints (says)
QWeatherStep(r, k, n) ==
    CASE r.kind = "row" ->
           [res |-> r, says |-> << >>]
      [] r.kind = "http" ->
           [res |-> IF QWeatherLast(k, n) THEN ReturnedNone ELSE Pending,
            says |-> << Line("ERR", "qweather", "http") >>]
      [] r.kind = "code" ->
           [res |-> ReturnedNone,
            says |-> << Line("ERR", "qweather", "code") >>]
      [] OTHER ->
           IF QWeatherLast(k, n)
           THEN [res |-> ReturnedNone,
                 says |-> << Line("ERR", "qweather", "exception") >>]
           ELSE [res |-> Pending, says |-> << >>]

\* lines 109-124: the key test and the location normalisation
QWeatherEnter ==
    /\ pc = "qw_enter"
    /\ IF KeyMissing(apiKey)
       THEN /\ out' = Append(out, Line("SKIP", "qweather", "key"))
            /\ result' = ReturnedNone
            /\ pc' = "qw_ret"
            /\ log' = Append(log, ReturnEv("qw_return", ReturnedNone))
            /\ UNCHANGED <<qwLoc, i>>
       ELSE /\ qwLoc' = NormalizeLocation(location)
            /\ i' = 0
            /\ pc' = "qw_loop"
            /\ UNCHANGED <<out, result, log>>
    /\ UNCHANGED <<caller, apiKey, location, retries, csv0, csv, clock>>

\* one pass of the for loop up to its return or sleep; with the range
\* exhausted the function falls off its end and returns None
QWeatherAttempt ==
    /\ pc = "qw_loop"
    /\ IF i >= retries
       THEN /\ result' = ReturnedNone
            /\ pc' = "qw_ret"
            /\ log' = Append(log, ReturnEv("qw_return", ReturnedNone))
            /\ out' = out
       ELSE \E resp \in QWResponses :
              LET r == QWeatherTry(resp)
                  step == QWeatherStep(r, i, retries)
              IN
              /\ result' = step.res
              /\ out' = out \o step.says
              /\ IF step.res = Pending
                 THEN /\ pc' = "qw_sleep"
                      /\ log' = Append(log, GetEv("qw_get", r, ""))
                 ELSE /\ pc' = "qw_ret"
                      /\ log' = log \o << GetEv("qw_get", r, ""),
                                          ReturnEv("qw_return", step.res) >>
    /\ UNCHANGED <<caller, apiKey, location, qwLoc, retries, i, csv0, csv, clock>>

\* lines 134 and 170, then the next value of the range
QWeatherSleep ==
    /\ pc = "qw_sleep"
    /\ clock' = clock + SleepSeconds
    /\ i' = i + 1
    /\ log' = Append(log, Ev("qw_sleep"))
    /\ pc' = "qw_loop"
    /\ UNCHANGED <<caller, apiKey, location, qwLoc, retries, result, csv0, csv, out>>

(***************************************************************************)
(* main, lines 173-193.                                                    *)
(***************************************************************************)
\* line 183: fetch_open_meteo(LAT, LON), default budget
MainCallOpenMeteo ==
    /\ pc = "main"
    /\ caller = "main"
    /\ retries' = DefaultRetries
    /\ i' = 0
    /\ result' = Pending
    /\ log' = Append(log, Ev("om_call"))
    /\ pc' = "om_loop"
    /\ UNCHANGED <<csv0, caller, apiKey, location, qwLoc, csv, out, clock>>

\* the Open-Meteo failure left uncaught: the run ends there
MainAfterOpenMeteo_Abort ==
    /\ pc = "om_ret"
    /\ caller = "main"
    /\ CASE result.kind = "row" ->
              /\ csv' = write_csv_row(csv, result.row)
              /\ log' = Append(log, WriteEv(CsvLine(result.row)))
              /\ out' = Append(out, Line("OK", "open-meteo", "row"))
              /\ pc' = "main_qw"
         [] OTHER ->
              /\ pc' = "done"
              /\ UNCHANGED <<csv, log, out>>
    /\ UNCHANGED <<csv0, caller, apiKey, location, qwLoc, retries, i, result, clock>>

\* lines 184-187: the row is written and reported, or the error is reported;
\* a None row creates the header and then fails inside write_csv_row
MainAfterOpenMeteo ==
    /\ pc = "om_ret"
    /\ caller = "main"
    /\ CASE result.kind = "row" ->
              /\ csv' = write_csv_row(csv, result.row)
              /\ log' = Append(log, WriteEv(CsvLine(result.row)))
              /\ out' = Append(out, Line("OK", "open-meteo", "row"))
         [] result.kind = "raise" ->
              /\ out' = Append(out, Line("ERR", "open-meteo", result.err))
              /\ UNCHANGED <<csv, log>>
         [] OTHER ->
              /\ csv' = ensure_csv_header(csv)
              /\ out' = Append(out, Line("ERR", "open-meteo", "AttributeError"))
              /\ log' = log
    /\ pc' = "main_qw"
    /\ UNCHANGED <<csv0, caller, apiKey, location, qwLoc, retries, i, result, clock>>

\* line 190: fetch_qweather(QWEATHER_API_KEY, QWEATHER_LOCATION), default budget
MainCallQWeather ==
    /\ pc = "main_qw"
    /\ caller = "main"
    /\ retries' = DefaultRetries
    /\ result' = Pending
    /\ log' = Append(log, Ev("qw_call"))
    /\ pc' = "qw_enter"
    /\ UNCHANGED <<csv0, caller, apiKey, location, qwLoc, i, csv, out, clock>>

\* a None result reported by main as well
MainAfterQWeather_ReportsNone ==
    /\ pc = "qw_ret"
    /\ caller = "main"
    /\ IF result.kind = "row"
       THEN /\ csv' = write_csv_row(csv, result.row)
            /\ log' = Append(log, WriteEv(CsvLine(result.row)))
            /\ out' = Append(out, Line("OK", "qweather", "row"))
       ELSE /\ out' = Append(out, Line("ERR", "qweather", "none"))
            /\ UNCHANGED <<csv, log>>
    /\ pc' = "done"
    /\ UNCHANGED <<csv0, caller, apiKey, location, qwLoc, retries, i, result, clock>>

\* lines 191-193: a row (a non-empty dict, hence truthy) is written and
\* reported; None is skipped
MainAfterQWeather ==
    /\ pc = "qw_ret"
    /\ caller = "main"
    /\ IF result.kind = "row"
       THEN /\ csv' = write_csv_row(csv, result.row)
            /\ log' = Append(log, WriteEv(CsvLine(result.row)))
            /\ out' = Append(out, Line("OK", "qweather", "row"))
       ELSE UNCHANGED <<csv, log, out>>
    /\ pc' = "done"
    /\ UNCHANGED <<csv0, caller, apiKey, location, qwLoc, retries, i, result, clock>>

(***************************************************************************)
(* Spec: one run of main.  The file is absent, or what earlier runs left.  *)
(***************************************************************************)
PriorLine ==
    << "T-1", "", LOCATION_NAME, "open-meteo", "27.5", "0.0", "80.0",
       "3.0", "180.0", "1009.0", "2", "partly cloudy" >>

InitialFiles ==
    { NoFile,
      [exists |-> TRUE, lines |-> << fieldnames >>],
      [exists |-> TRUE, lines |-> << fieldnames, PriorLine >>] }

Init ==
    /\ pc = "main"
    /\ caller = "main"
    /\ apiKey \in ApiKeys
    /\ location \in Locations
    /\ qwLoc = location
    /\ retries = DefaultRetries
    /\ i = 0
    /\ result = Pending
    /\ csv0 \in InitialFiles
    /\ csv = csv0
    /\ out = << >>
    /\ log = << >>
    /\ clock = 0

Next ==
    \/ MainCallOpenMeteo
    \/ OpenMeteoAttempt
    \/ OpenMeteoSleep
    \/ MainAfterOpenMeteo
    \/ MainCallQWeather
    \/ QWeatherEnter
    \/ QWeatherAttempt
    \/ QWeatherSleep
    \/ MainAfterQWeather

Spec == Init /\ [][Next]_vars

(***************************************************************************)
(* SpecFetch: one direct call of fetch_open_meteo(lat, lon, retries) or of *)
(* fetch_qweather(api_key, location, retries), for any budget.             *)
(***************************************************************************)
InitFetch ==
    /\ pc \in {"om_loop", "qw_enter"}
    /\ caller = "direct"
    /\ apiKey \in ApiKeys
    /\ location \in Locations
    /\ qwLoc = location
    /\ retries \in 0..MaxRetries
    /\ i = 0
    /\ result = Pending
    /\ csv0 = NoFile
    /\ csv = csv0
    /\ out = << >>
    /\ log = << >>
    /\ clock = 0

NextFetch ==
    \/ OpenMeteoAttempt
    \/ OpenMeteoSleep
    \/ QWeatherEnter
    \/ QWeatherAttempt
    \/ QWeatherSleep

SpecFetch == InitFetch /\ [][NextFetch]_vars

(***************************************************************************)
(* SpecCsv: calls of the row sink on CSV_PATH, one after the other,        *)
(* starting without the file.                                              *)
(***************************************************************************)
SampleRows ==
    { OpenMeteoRow(Current(PyFloat(28400), PyFloat(0), PyInt(70), PyFloat(18000),
                           PyInt(90), PyFloat(1008200), PyInt(3))),
      QWeatherRow(EmptyNow),
      [provider |-> PyStr("qweather"), temp_c |-> PyFloat(21500)] }

\* ensure_csv_header(CSV_PATH, fieldnames)
CallEnsureCsvHeader ==
    /\ pc = "csv"
    /\ Len(log) < MaxCalls
    /\ csv' = ensure_csv_header(csv)
    /\ log' = Append(log, Ev("ensure"))
    /\ UNCHANGED <<csv0, pc, caller, apiKey, location, qwLoc, retries, i, result, out, clock>>

\* write_csv_row(row, fieldnames)
CallWriteCsvRow ==
    /\ pc = "csv"
    /\ Len(log) < MaxCalls
    /\ \E row \in SampleRows :
         /\ csv' = write_csv_row(csv, row)
         /\ log' = Append(log, WriteEv(CsvLine(row)))
    /\ UNCHANGED <<csv0, pc, caller, apiKey, location, qwLoc, retries, i, result, out, clock>>

InitCsv ==
    /\ pc = "csv"
    /\ caller = "csv"
    /\ apiKey = ""
    /\ location = DefaultLocation
    /\ qwLoc = location
    /\ retries = DefaultRetries
    /\ i = 0
    /\ result = Pending
    /\ csv0 = NoFile
    /\ csv = csv0
    /\ out = << >>
    /\ log = << >>
    /\ clock = 0

NextCsv ==
    \/ CallEnsureCsvHeader
    \/ CallWriteCsvRow

SpecCsv == InitCsv /\ [][NextCsv]_vars

(***************************************************************************)
(* Reading the effects.                                                    *)
(***************************************************************************)
\* the positions of log that hold an event named e
At(e) == { k \in 1..Len(log) : log[k].ev = e }
Count(e) == Cardinality(At(e))
\* the names of the events of log, in order
Evs == [k \in 1..Len(log) |-> log[k].ev]
\* the printed lines of one provider
Said(provider) == { k \in 1..Len(out) : out[k].provider = provider }

(***************************************************************************)
(* C1: when every attempt of the Open-Meteo fetch of a run fails, the      *)
(* fetch has made exactly 3 requests, 2 seconds apart, has slept exactly   *)
(* twice and not after the third request, and raises the error of the      *)
(* third request.                                                          *)
(***************************************************************************)
C1_ExhaustedRaises ==
    (/\ caller = "main"
     /\ pc = "om_ret"
     /\ \A k \in At("om_get") : log[k].outcome # "row")
    => /\ Evs = << "om_call", "om_get", "om_sleep", "om_get", "om_sleep",
                   "om_get", "om_return" >>
       /\ log[4].at = log[2].at + SleepSeconds
       /\ log[6].at = log[4].at + SleepSeconds
       /\ clock = log[6].at
       /\ result = Raised(log[6].err)

C1_Witness ==
    /\ caller = "main"
    /\ pc = "om_ret"
    /\ Count("om_get") = 3
    /\ \A k \in At("om_get") : log[k].outcome = "raise"
    /\ log[2].err = "ConnectionError"
    /\ log[4].err = "HTTPError"
    /\ log[6].err = "Timeout"
    /\ result = Raised("Timeout")

(***************************************************************************)
(* C2: in fetch_qweather a non-200 status is slept on for 2 seconds and    *)
(* followed by the next request while the budget lasts, and ends the call  *)
(* with None only on the last pass; a 200 reply whose body code is not     *)
(* "200" ends the call with None at once, whatever passes remain, with no  *)
(* sleep and no request after it.                                          *)
(***************************************************************************)
\* the number of the request at position k of log, counted from 1
AttemptNo(k) == Cardinality({ j \in At("qw_get") : j <= k })

\* position k of log is the last event, a return of None, and the call is over
EndsWithNone(k) ==
    /\ k = Len(log)
    /\ log[k] = ReturnEv("qw_return", ReturnedNone)
    /\ pc = "qw_ret"
    /\ result = ReturnedNone

C2_HttpTransientCodeFinal ==
    \A k \in At("qw_get") :
       /\ log[k].outcome = "http" =>
            IF AttemptNo(k) < retries
            THEN /\ k = Len(log) => pc = "qw_sleep"
                 /\ k < Len(log) => log[k + 1] = Ev("qw_sleep")
                 /\ k + 1 = Len(log) => pc = "qw_loop" /\ i < retries
                 /\ k + 1 < Len(log) =>
                       /\ log[k + 2].ev = "qw_get"
                       /\ log[k + 2].at = log[k].at + SleepSeconds
            ELSE EndsWithNone(k + 1)
       /\ log[k].outcome = "code" =>
            /\ EndsWithNone(k + 1)
            /\ clock = log[k].at

\* a body code 401 on the second of three passes, after a non-200 status
C2_Witness ==
    /\ caller = "direct"
    /\ retries = 3
    /\ Len(log) = 4
    /\ log[1].ev = "qw_get" /\ log[1].outcome = "http"
    /\ log[2] = Ev("qw_sleep")
    /\ log[3].ev = "qw_get" /\ log[3].outcome = "code"
    /\ result = ReturnedNone
    /\ pc = "qw_ret"

(***************************************************************************)
(* C3: a call of fetch_qweather never raises: while it runs no exception   *)
(* is on its way to the caller, and when it is over its result is a row or *)
(* None, for every key, location, budget and sequence of replies.          *)
(***************************************************************************)
C3_QWeatherNeverRaises ==
    pc \in {"qw_enter", "qw_loop", "qw_sleep", "qw_ret"} =>
       /\ result.kind # "raise"
       /\ pc = "qw_ret" =>
            /\ result.kind \in {"row", "none"}
            /\ log[Len(log)] = ReturnEv("qw_return", result)
       /\ pc # "qw_ret" => result = Pending

\* three passes that all ended in an exception, answered with None
C3_Witness ==
    /\ caller = "direct"
    /\ pc = "qw_ret"
    /\ Count("qw_get") = 3
    /\ \A k \in At("qw_get") : log[k].outcome = "raise"
    /\ result = ReturnedNone
    /\ out = << Line("ERR", "qweather", "exception") >>

(***************************************************************************)
(* C4: in every run, whether the Open-Meteo fetch returned a row or        *)
(* raised, main calls fetch_qweather exactly once afterwards and the run   *)
(* reaches its end; fetch_qweather is called only after fetch_open_meteo   *)
(* is over and its row, if any, is in the file.                            *)
(***************************************************************************)
\* the single thread of control keeps running until main returns
FairSpec == Init /\ [][Next]_vars /\ WF_vars(Next)

OpenMeteoEvents == {"om_call", "om_get", "om_sleep", "om_return"}
QWeatherEvents == {"qw_call", "qw_get", "qw_sleep", "qw_return"}

\* position k holds the call of fetch_qweather: before it lies one whole
\* call of fetch_open_meteo and the write of its row, after it nothing of
\* Open-Meteo
StartsAfterOpenMeteo(k) ==
    \E j \in At("om_return") :
       /\ At("om_return") = {j}
       /\ Evs[1] = "om_call"
       /\ \A m \in 2..(j - 1) : Evs[m] \in {"om_get", "om_sleep"}
       /\ IF log[j].res.kind = "row"
          THEN /\ k = j + 2
               /\ log[j + 1] = WriteEv(CsvLine(log[j].res.row))
               /\ Len(csv.lines) >= Len(csv0.lines) + 1
               /\ CsvLine(log[j].res.row) \in
                     { csv.lines[m] : m \in (Len(csv0.lines) + 1)..Len(csv.lines) }
          ELSE k = j + 1
       /\ \A m \in (k + 1)..Len(log) : Evs[m] \in QWeatherEvents \cup {"write"}

C4_Sequential ==
    /\ Count("om_call") <= 1
    /\ Count("qw_call") <= 1
    /\ \A k \in At("qw_call") : StartsAfterOpenMeteo(k)
    /\ pc \in {"qw_enter", "qw_loop", "qw_sleep", "qw_ret", "done"}
          => Count("qw_call") = 1
    /\ pc = "done" => Count("om_return") = 1 /\ Count("qw_return") = 1

C4_QWeatherAlwaysAttempted == [](C4_Sequential) /\ <>(pc = "done")

\* Open-Meteo raised after three failures, QWeather was still fetched and
\* the run is over
C4_Witness ==
    /\ pc = "done"
    /\ \E j \in At("om_return") : log[j].res.kind = "raise"
    /\ Count("qw_call") = 1
    /\ Count("qw_get") >= 1
    /\ Count("qw_return") = 1

(***************************************************************************)
(* C5: at the end of a run the file holds what the run found (or the new   *)
(* header), followed by one record for each fetch that returned a row,     *)
(* Open-Meteo's before QWeather's, and nothing for a fetch that raised or  *)
(* returned None.                                                          *)
(***************************************************************************)
\* the record of the row a fetch returned, if it returned one
RowsOf(e) ==
    IF \E k \in At(e) : log[k].res.kind = "row"
    THEN << CsvLine(log[CHOOSE k \in At(e) : log[k].res.kind = "row"].res.row) >>
    ELSE << >>

Appended == RowsOf("om_return") \o RowsOf("qw_return")

C5_OneRowPerObservation ==
    pc = "done" =>
       /\ Count("om_return") = 1
       /\ Count("qw_return") = 1
       /\ Count("write") = Len(Appended)
       /\ IF Appended = << >>
          THEN csv = csv0
          ELSE /\ csv.exists
               /\ csv.lines =
                    (IF csv0.exists THEN csv0.lines ELSE << fieldnames >>)
                    \o Appended

\* QWeather answered with a body code other than "200" (401), Open-Meteo
\* returned a row: the file ends with that one row
C5_Witness ==
    /\ pc = "done"
    /\ csv0.exists
    /\ Len(csv0.lines) = 2
    /\ Len(RowsOf("om_return")) = 1
    /\ \E k \in At("qw_get") : log[k].outcome = "code"
    /\ RowsOf("qw_return") = << >>
    /\ csv.lines = csv0.lines \o RowsOf("om_return")
    /\ csv.lines[3][4] = "open-meteo"

(***************************************************************************)
(* C6, as claimed: the file with its header exists from the first step of  *)
(* main on, before a provider is called, and so at the end of every run.   *)
(***************************************************************************)
HasHeader(f) == f.exists /\ Len(f.lines) >= 1 /\ f.lines[1] = fieldnames

C6_Original ==
    /\ Count("om_call") >= 1 => HasHeader(csv)
    /\ pc = "done" => HasHeader(csv)

(***************************************************************************)
(* C6, amended: main does not ensure the header before it calls the        *)
(* providers; the header is written by write_csv_row, right before the     *)
(* first record of a file that was absent.  Until a record is written the  *)
(* file is as the run found it (absent stays absent, also at the end of a  *)
(* run in which both providers failed); once a record is written the file  *)
(* exists and its first line is the header.                                *)
(***************************************************************************)
C6_HeaderOnFirstWrite ==
    /\ Count("write") = 0 => csv = csv0
    /\ Count("write") > 0 => HasHeader(csv)
    /\ csv.exists => HasHeader(csv)
    /\ \A k \in 2..Len(csv.lines) : csv.lines[k] # fieldnames

\* both providers failed on all their requests and the file is still absent
C6_Witness ==
    /\ pc = "done"
    /\ ~csv0.exists
    /\ ~csv.exists
    /\ Count("om_get") = 3
    /\ Count("qw_get") = 3
    /\ Count("write") = 0

(***************************************************************************)
(* C7: starting without the file, after any sequence of ensure_csv_header  *)
(* and write_csv_row calls the file is one header line followed by the     *)
(* records of the write_csv_row calls, in call order.  As it holds after   *)
(* every call, no call adds a second header, and each write_csv_row adds   *)
(* its one record at the end and leaves the earlier lines as they were.    *)
(***************************************************************************)
Writes == SelectSeq(log, LAMBDA e : e.ev = "write")
WrittenLines == [k \in 1..Len(Writes) |-> Writes[k].line]

C7_OneHeaderRowsInOrder ==
    caller = "csv" =>
       /\ Len(log) = 0 => csv = NoFile
       /\ Len(log) > 0 =>
            /\ csv.exists
            /\ csv.lines = << fieldnames >> \o WrittenLines

\* ensure twice, then two appends: header, first record, second record
C7_Witness ==
    /\ caller = "csv"
    /\ Evs = << "ensure", "ensure", "write", "write" >>
    /\ log[3].line # log[4].line
    /\ csv.lines = << fieldnames, log[3].line, log[4].line >>

(***************************************************************************)
(* C8, as claimed: whatever the budget (0 included) and the replies, a     *)
(* call of fetch_open_meteo ends with a row or with a raised error, never  *)
(* with None.                                                              *)
(***************************************************************************)
C8_Original ==
    pc = "om_ret" => result.kind \in {"row", "raise"}

(***************************************************************************)
(* C9: with an empty key fetch_qweather returns None at once: no request   *)
(* and no sleep; main goes on to its end, and the row Open-Meteo returned  *)
(* in the same run is in the file.                                         *)
(***************************************************************************)
C9_EmptyKeySkips ==
    apiKey = "" =>
       /\ Count("qw_get") = 0
       /\ Count("qw_sleep") = 0
       /\ pc \notin {"qw_loop", "qw_sleep"}
       /\ pc = "qw_ret" =>
            /\ result = ReturnedNone
            /\ log[Len(log) - 1] = Ev("qw_call")
            /\ log[Len(log)] = ReturnEv("qw_return", ReturnedNone)
            /\ caller = "main" => ENABLED MainAfterQWeather
       /\ pc = "done" =>
            /\ Said("qweather") = {Len(out)}
            /\ out[Len(out)].level = "SKIP"
            /\ csv.lines =
                 (IF csv0.exists \/ RowsOf("om_return") = << >>
                  THEN csv0.lines ELSE << fieldnames >>)
                 \o RowsOf("om_return")

\* no key, Open-Meteo returned a row on its second request: the run is over
\* and the row is the last line of the file
C9_Witness ==
    /\ apiKey = ""
    /\ pc = "done"
    /\ Count("om_get") = 2
    /\ Len(RowsOf("om_return")) = 1
    /\ csv.lines[Len(csv.lines)] = RowsOf("om_return")[1]
    /\ out = << Line("OK", "open-meteo", "row"), Line("SKIP", "qweather", "key") >>

(***************************************************************************)
(* C10, as claimed: at the end of a run exactly one line was printed for   *)
(* Open-Meteo and exactly one for QWeather, whatever the number of         *)
(* requests.                                                               *)
(***************************************************************************)
C10_Original ==
    pc = "done" =>
       /\ Cardinality(Said("open-meteo")) = 1
       /\ Cardinality(Said("qweather")) = 1

(***************************************************************************)
(* C10, amended: a run prints exactly one line for Open-Meteo, [OK] if its *)
(* fetch returned a row and [ERR] if it raised.  For QWeather it prints    *)
(* one [ERR] line for every request answered with a non-200 status, and    *)
(* one closing line ([SKIP], [OK], [ERR] api code or [ERR] exception)      *)
(* unless the fetch ended on a non-200 status at its last request: at      *)
(* least one line and at most as many as the budget, the [OK] line exactly *)
(* when a row was returned.                                                *)
(***************************************************************************)
HttpFailures == { k \in At("qw_get") : log[k].outcome = "http" }

\* the last request of fetch_qweather was answered with a non-200 status
EndedOnHttpFailure ==
    /\ At("qw_get") # {}
    /\ \E k \in HttpFailures : \A j \in At("qw_get") : j <= k

C10_StatusLines ==
    pc = "done" =>
       /\ Said("open-meteo") = {1}
       /\ out[1].level = (IF RowsOf("om_return") # << >> THEN "OK" ELSE "ERR")
       /\ Cardinality(Said("qweather")) =
             Cardinality(HttpFailures) + (IF EndedOnHttpFailure THEN 0 ELSE 1)
       /\ Cardinality(Said("qweather")) >= 1
       /\ Cardinality(Said("qweather")) <= DefaultRetries
       /\ Cardinality({ k \in Said("qweather") : out[k].level = "OK" }) =
             Len(RowsOf("qw_return"))
       /\ \A k \in Said("qweather") :
             out[k].level = "OK" => k = Len(out)

\* two non-200 replies, then a row: three QWeather lines in one run
C10_Witness ==
    /\ pc = "done"
    /\ Len(out) = 4
    /\ out[2] = Line("ERR", "qweather", "http")
    /\ out[3] = Line("ERR", "qweather", "http")
    /\ out[4] = Line("OK", "qweather", "row")

(***************************************************************************)
(* SpecRow: one reply with a well-formed body is turned into a row and     *)
(* the row is written (lines 85-100 with 184, lines 144-165 with 192),     *)
(* for upstream values of every kind in up to two fields at a time.        *)
(***************************************************************************)
\* what a numeric field of a body can hold
FieldInputs ==
    { PyNone, PyInt(18), PyInt(36), PyFloat(28400), PyStr("18"), PyStr("36"),
      PyStr("n/a"), PyStr(""), PyBool(TRUE), PyList }

\* what weather_code can hold
CodeInputs ==
    { PyInt(3), PyInt(4), PyNone, PyFloat(3000), PyStr("3"), PyStr("fog") }

\* what obsTime can hold
ObsInputs == { PyStr("2025-08-01T14:00+08:00"), PyStr(""), PyNone }

\* column of the row -> key of the "current" object
OpenMeteoKeys ==
    [temp_c |-> "temperature_2m", precip_mm_1h |-> "precipitation",
     humidity_pct |-> "relative_humidity_2m", wind_speed_mps |-> "wind_speed_10m",
     wind_dir_deg |-> "wind_direction_10m", pressure_hpa |-> "pressure_msl"]

\* column of the row -> key of the "now" object
QWeatherKeys ==
    [temp_c |-> "temp", precip_mm_1h |-> "precip", humidity_pct |-> "humidity",
     wind_speed_mps |-> "windSpeed", wind_dir_deg |-> "wind360",
     pressure_hpa |-> "pressure"]

NumericColumns == DOMAIN OpenMeteoKeys

BaseCurrent ==
    Current(PyFloat(28400), PyFloat(0), PyInt(70), PyFloat(18000),
            PyInt(90), PyFloat(1008200), PyInt(3))

BaseNow ==
    Now(PyStr("28"), PyStr("0"), PyStr("70"), PyStr("18"), PyStr("90"),
        PyStr("1008"), PyStr("101"), PyStr("cloudy"),
        PyStr("2025-08-01T14:00+08:00"))

RowCurrents ==
    { [BaseCurrent EXCEPT ![OpenMeteoKeys[f]] = v, ![OpenMeteoKeys[g]] = w,
                          !.weather_code = c] :
        f \in NumericColumns, g \in {"wind_speed_mps", "temp_c"},
        v \in FieldInputs, w \in FieldInputs, c \in CodeInputs }

RowNows ==
    { [BaseNow EXCEPT ![QWeatherKeys[f]] = v, ![QWeatherKeys[g]] = w,
                      !.obsTime = o] :
        f \in NumericColumns, g \in {"wind_speed_mps", "temp_c"},
        v \in FieldInputs, w \in FieldInputs, o \in ObsInputs }

InEv(e, body) == [ev |-> e, body |-> body]

\* lines 85-100 and 184
OpenMeteoRowWritten ==
    /\ pc = "row"
    /\ \E cur \in RowCurrents :
         LET row == OpenMeteoRow(cur) IN
         /\ result' = Returned(row)
         /\ csv' = write_csv_row(csv, row)
         /\ log' = << InEv("om_in", cur), WriteEv(CsvLine(row)) >>
    /\ pc' = "row_done"
    /\ UNCHANGED <<csv0, caller, apiKey, location, qwLoc, retries, i, out, clock>>

\* lines 144-165 and 192
QWeatherRowWritten ==
    /\ pc = "row"
    /\ \E now \in RowNows :
         LET row == QWeatherRow(now) IN
         /\ result' = Returned(row)
         /\ csv' = write_csv_row(csv, row)
         /\ log' = << InEv("qw_in", now), WriteEv(CsvLine(row)) >>
    /\ pc' = "row_done"
    /\ UNCHANGED <<csv0, caller, apiKey, location, qwLoc, retries, i, out, clock>>

InitRow ==
    /\ pc = "row"
    /\ caller = "row"
    /\ apiKey = "k3y"
    /\ location = DefaultLocation
    /\ qwLoc = location
    /\ retries = DefaultRetries
    /\ i = 0
    /\ result = Pending
    /\ csv0 \in InitialFiles
    /\ csv = csv0
    /\ out = << >>
    /\ log = << >>
    /\ clock = 0

NextRow ==
    \/ OpenMeteoRowWritten
    \/ QWeatherRowWritten

SpecRow == InitRow /\ [][NextRow]_vars

(***************************************************************************)
(* C11: every row that is written has a non-empty ts_iso and the provider  *)
(* "open-meteo" or "qweather"; each numeric column holds a float or None   *)
(* (an empty cell in the file), never text: it is None exactly when the    *)
(* upstream value is missing or not a number, whatever the other fields    *)
(* hold, and the row is built and written all the same.                    *)
(***************************************************************************)
\* the upstream value is a number or the text of one
IsNumber(v) ==
    \/ v.t \in {"int", "float", "bool"}
    \/ v.t = "str" /\ v.s \in { ToString(k) : k \in 0..MaxLiteral }

\* the position of a column in the file
ColumnNo(f) == CHOOSE k \in 1..Len(fieldnames) : fieldnames[k] = f

\* the body the written row was built from
RowInput == log[1].body
RowKeys == IF log[1].ev = "om_in" THEN OpenMeteoKeys ELSE QWeatherKeys

IsKmhOver36(m, k) == 36 * m <= 10 * k /\ 10 * k < 36 * (m + 1)

C12_Original ==
    (caller = "row" /\ pc = "row_done") =>
       LET wind == RowInput[RowKeys["wind_speed_mps"]] IN
       IsNumber(wind) =>
          /\ result.row.wind_speed_mps.t = "float"
          /\ IsKmhOver36(result.row.wind_speed_mps.m, ToFloat(wind).m)

(***************************************************************************)
(* C13: every Open-Meteo row has an empty ts_obs_iso, the text of the      *)
(* upstream weather_code ("3" for 3) as weather_code_or_text and the       *)
(* decoding of that code as weather_desc; every QWeather row has the       *)
(* upstream obsTime, as it came, as ts_obs_iso.                            *)
(***************************************************************************)
\* the text and the description expected for each weather_code tried
CodeText(c) ==
    CASE c = PyInt(3) -> "3" [] c = PyInt(4) -> "4" [] c = PyNone -> "None"
      [] c = PyFloat(3000) -> "3.0" [] c = PyStr("3") -> "3"
      [] c = PyStr("fog") -> "fog"

CodeDesc(c) ==
    CASE c = PyInt(3) -> WMO_WEATHER_CODES[3] [] c = PyInt(4) -> "unknown(4)"
      [] c = PyNone -> "" [] c = PyFloat(3000) -> WMO_WEATHER_CODES[3]
      [] c = PyStr("3") -> WMO_WEATHER_CODES[3] [] c = PyStr("fog") -> "fog"

C13_ObsTimeAndCode ==
    (caller = "row" /\ pc = "row_done") =>
       LET row == result.row
           line == csv.lines[Len(csv.lines)]
       IN
       IF log[1].ev = "om_in"
       THEN /\ row.ts_obs_iso = PyStr("")
            /\ line[ColumnNo("ts_obs_iso")] = ""
            /\ line[ColumnNo("ts_iso")] # ""
            /\ row.weather_code_or_text = PyStr(CodeText(RowInput.weather_code))
            /\ line[ColumnNo("weather_code_or_text")] = CodeText(RowInput.weather_code)
            /\ row.weather_desc = PyStr(CodeDesc(RowInput.weather_code))
            /\ line[ColumnNo("weather_desc")] = CodeDesc(RowInput.weather_code)
       ELSE /\ row.ts_obs_iso = RowInput.obsTime
            /\ line[ColumnNo("ts_obs_iso")] =
                  (IF RowInput.obsTime = PyNone THEN "" ELSE RowInput.obsTime.s)

\* scenario 1: temperature 28.4 and code 3 from Open-Meteo
C13_Witness ==
    /\ caller = "row"
    /\ pc = "row_done"
    /\ log[1].ev = "om_in"
    /\ RowInput = BaseCurrent
    /\ result.row.temp_c = PyFloat(28400)
    /\ result.row.weather_code_or_text = PyStr("3")
    /\ result.row.weather_desc = PyStr("cloudy")
    /\ result.row.ts_obs_iso = PyStr("")
    /\ csv.lines[Len(csv.lines)][ColumnNo("temp_c")] = "28.4"

(***************************************************************************)
(* SpecDecode: one call of decode_weather.                                 *)
(***************************************************************************)
\* largest integer code tried
MaxCode == 99

DecodeInputs ==
    { PyInt(n) : n \in -1..MaxCode }
    \cup { PyNone, PyFloat(3000), PyFloat(3700), PyFloat(4200), PyStr("3"),
           PyStr("4"), PyStr("fog"), PyStr(""), PyBool(TRUE), PyBool(FALSE),
           PyList }

\* decode_weather(code)
CallDecodeWeather ==
    /\ pc = "decode"
    /\ \E code \in DecodeInputs :
         /\ result' = [kind |-> "text", s |-> decode_weather(code)]
         /\ log' = << InEv("decode", code) >>
    /\ pc' = "decoded"
    /\ UNCHANGED <<csv0, caller, apiKey, location, qwLoc, retries, i, csv, out, clock>>

InitDecode ==
    /\ pc = "decode"
    /\ caller = "decode"
    /\ apiKey = ""
    /\ location = DefaultLocation
    /\ qwLoc = location
    /\ retries = DefaultRetries
    /\ i = 0
    /\ result = Pending
    /\ csv0 = NoFile
    /\ csv = csv0
    /\ out = << >>
    /\ log = << >>
    /\ clock = 0

NextDecode == CallDecodeWeather

SpecDecode == InitDecode /\ [][NextDecode]_vars

(***************************************************************************)
(* C14, as claimed: decode_weather returns, for an integer code of 0..99,  *)
(* the table entry or "unknown(<code>)"; for any input that is not an      *)
(* integer, the text of the input; for None, "".  Read in the claim's      *)
(* favour, an input counts as an integer also when it is a float without   *)
(* a fraction, a bool or the text of an integer.                           *)
(***************************************************************************)
\* int(x) is x itself
Integral(x) ==
    \/ x.t \in {"int", "bool"}
    \/ x.t = "float" /\ x.m % 1000 = 0
    \/ x.t = "str" /\ x.s \in {"3", "4"}

\* what an integer code decodes to
Entry(n) ==
    IF n \in DOMAIN WMO_WEATHER_CODES THEN WMO_WEATHER_CODES[n]
    ELSE "unknown(" \o ToString(n) \o ")"

DecodeInput == log[1].body

C14_Original ==
    (caller = "decode" /\ pc = "decoded") =>
       /\ result.kind = "text"
       /\ DecodeInput.t = "int" => result.s = Entry(DecodeInput.n)
       /\ DecodeInput = PyNone => result.s = ""
       /\ (~Integral(DecodeInput) /\ DecodeInput # PyNone)
             => result.s = ToStr(DecodeInput)

(***************************************************************************)
(* C14, amended: decode_weather never raises and returns a string.  For    *)
(* input that int() accepts (an integer, a float, which loses its          *)
(* fraction, a bool, the text of an integer) it returns the table entry of *)
(* int(input), or "unknown(<int(input)>)" off the table; for input that    *)
(* int() rejects it returns the text of the input, and "" for None.        *)
(***************************************************************************)
C14_DecodeTotal ==
    (caller = "decode" /\ pc = "decoded") =>
       /\ result.kind = "text"
       /\ CASE DecodeInput.t = "int" -> result.s = Entry(DecodeInput.n)
            [] DecodeInput.t = "float" ->
                 result.s = Entry(DecodeInput.m \div 1000)
            [] DecodeInput.t = "bool" ->
                 result.s = Entry(IF DecodeInput.b THEN 1 ELSE 0)
            [] DecodeInput.t = "str" ->
                 IF DecodeInput.s \in {"3", "4"}
                 THEN result.s = Entry(IF DecodeInput.s = "3" THEN 3 ELSE 4)
                 ELSE result.s = DecodeInput.s
            [] DecodeInput = PyNone -> result.s = ""
            [] OTHER -> result.s = "[]"

\* the float 3.7 decodes as code 3
C14_Witness ==
    /\ caller = "decode"
    /\ pc = "decoded"
    /\ DecodeInput = PyFloat(3700)
    /\ result.s = WMO_WEATHER_CODES[3]

(***************************************************************************)
(* SpecLoc: the entry of fetch_qweather (lines 109-119) for every short    *)
(* location text and some long ones.                                       *)
(***************************************************************************)
InitLoc ==
    /\ pc = "qw_enter"
    /\ caller = "loc"
    /\ apiKey \in ApiKeys
    /\ location \in LocationTexts
    /\ qwLoc = location
    /\ retries = DefaultRetries
    /\ i = 0
    /\ result = Pending
    /\ csv0 = NoFile
    /\ csv = csv0
    /\ out = << >>
    /\ log = << >>
    /\ clock = 0

NextLoc == QWeatherEnter

SpecLoc == InitLoc /\ [][NextLoc]_vars

(***************************************************************************)
(* C15: before the request is built, a location of two comma-separated     *)
(* parts that are both numbers is rewritten to the two numbers rounded to  *)
(* two decimals ("114.0576,22.5431" becomes "114.06,22.54"); every other   *)
(* text ("440300") is left as it is.                                       *)
(***************************************************************************)
Commas(text) == Cardinality({ k \in 1..Len(text) : text[k] = "," })

\* text is [-]digits.dd
TwoDecimals(text) ==
    LET t == IF text # << >> /\ text[1] = "-" THEN Tail(text) ELSE text IN
    /\ Len(t) >= 4
    /\ t[Len(t) - 2] = "."
    /\ \A k \in 1..Len(t) : k # Len(t) - 2 => t[k] \in Digits

\* the number of text b is that of text a, rounded to hundredths
RoundedFrom(b, a) ==
    LET x == FloatOf(a)
        y == FloatOf(b)
        d == 1000000 * (y.int - x.int) + y.frac - x.frac
    IN /\ y.neg = x.neg
       /\ y.int - x.int \in {0, 1}
       /\ y.frac % 10000 = 0
       /\ d >= -5000 /\ d <= 5000

C15_LocationNormalised ==
    (caller = "loc" /\ pc = "qw_loop") =>
       LET parts == Split(location)
           outs == Split(qwLoc)
       IN
       /\ IF Commas(location) = 1 /\ IsFloatText(parts[1]) /\ IsFloatText(parts[2])
          THEN /\ Commas(qwLoc) = 1
               /\ \A k \in 1..2 :
                     /\ TwoDecimals(outs[k])
                     /\ RoundedFrom(outs[k], parts[k])
          ELSE qwLoc = location
       /\ (\E k \in 1..Len(location) : location[k] = "x") => qwLoc = location
       /\ Commas(location) # 1 => qwLoc = location
       /\ location = SampleLonLat => qwLoc = SampleLonLat2
       /\ location = SampleCarry => qwLoc = SampleCarry2
       /\ location = SampleId => qwLoc = SampleId

C15_Witness ==
    /\ caller = "loc"
    /\ pc = "qw_loop"
    /\ location = SampleLonLat
    /\ qwLoc = SampleLonLat2

(***************************************************************************)
(* C16: every call of fetch_open_meteo or fetch_qweather ends, having made *)
(* at most `retries` requests, none after a request that gave a row or an  *)
(* api error code, and having slept 2 seconds only between one request and *)
(* the next: at most retries - 1 times, never after the last request.      *)
(***************************************************************************)
\* the single thread of control keeps running until the fetch is over;
\* every request ends by its timeout (lines 82, 128)
FairSpecFetch == InitFetch /\ [][NextFetch]_vars /\ WF_vars(NextFetch)

Gets == At("om_get") \cup At("qw_get")
Sleeps == At("om_sleep") \cup At("qw_sleep")
Returns == At("om_return") \cup At("qw_return")
FetchOver == pc \in {"om_ret", "qw_ret"}

C16_WithinBudget ==
    caller = "direct" =>
       /\ Cardinality(Gets) <= retries
       /\ Cardinality(Sleeps) <= (IF retries = 0 THEN 0 ELSE retries - 1)
       /\ clock = SleepSeconds * Cardinality(Sleeps)
       \* nothing follows the return, and a final result is returned at once
       /\ \A k \in Returns : k = Len(log) /\ FetchOver
       /\ \A k \in Gets :
             log[k].outcome \in {"row", "code"} =>
                /\ k + 1 = Len(log)
                /\ k + 1 \in Returns
       \* a sleep lies between two requests
       /\ \A k \in Sleeps :
             /\ k - 1 \in Gets
             /\ k < Len(log) => k + 1 \in Gets
             /\ k = Len(log) => pc \in {"om_loop", "qw_loop"} /\ i < retries
       \* the request that uses up the budget is not slept on
       /\ pc \in {"om_sleep", "qw_sleep"} => Cardinality(Gets) < retries
       /\ FetchOver => /\ Returns = {Len(log)}
                       /\ \A k \in Sleeps : \E g \in Gets : g > k

C16_TerminatesWithinBudget == [](C16_WithinBudget) /\ <>(FetchOver)

\* three failed requests to QWeather, two sleeps between them, and the
\* call is over
C16_Witness ==
    /\ caller = "direct"
    /\ pc = "qw_ret"
    /\ retries = 3
    /\ Count("qw_get") = 3
    /\ Count("qw_sleep") = 2
    /\ clock = 4
    /\ Evs = << "qw_get", "qw_sleep", "qw_get", "qw_sleep", "qw_get", "qw_return" >>

(***************************************************************************)
(* SpecRace: two invocations of the process write to the same file at the  *)
(* same time.  Each calls write_csv_row for its rows; the steps of one     *)
(* call are the system calls it makes: the existence test (line 59), the   *)
(* open for writing (line 61), the header written when that file is closed *)
(* (lines 62-63) and the record appended (lines 66-69).  Here pc, result   *)
(* and i are per invocation: where it is, its local new_file, and how many *)
(* records it has appended.                                                *)
(***************************************************************************)
Invocations == {1, 2}

\* records one invocation writes: main writes one per provider at most
MaxRows == 2

\* record n of invocation p
RaceRow(p, n) ==
    [ts_iso |-> now_cn_iso,
     location_name |-> PyStr(LOCATION_NAME),
     provider |-> PyStr(IF n = 1 THEN "open-meteo" ELSE "qweather"),
     temp_c |-> PyInt(20 + p)]

RaceEv(e, p, lines) == [ev |-> e, by |-> p, lines |-> lines]

\* line 59: new_file = not os.path.exists(path)
RaceExists(p) ==
    /\ pc[p] = "exists"
    /\ result' = [result EXCEPT ![p] = ~csv.exists]
    /\ pc' = [pc EXCEPT ![p] = IF ~csv.exists THEN "open_w" ELSE "append"]
    /\ UNCHANGED <<caller, apiKey, location, qwLoc, retries, i, csv0, csv, out, log, clock>>

\* line 61: open(path, "w") creates the file or cuts it to nothing
RaceOpenW(p) ==
    /\ pc[p] = "open_w"
    /\ csv' = [exists |-> TRUE, lines |-> << >>]
    /\ log' = Append(log, RaceEv("open_w", p, csv.lines))
    /\ pc' = [pc EXCEPT ![p] = "header"]
    /\ UNCHANGED <<caller, apiKey, location, qwLoc, retries, i, result, csv0, out, clock>>

\* lines 62-63: the header goes out when the file is closed, at the start
\* of the file; over what others have written there since the open, it
\* replaces the first line and, being longer than a record, may reach into
\* the lines after it
RaceWriteHeader(p) ==
    /\ pc[p] = "header"
    /\ \E k \in 0..Len(csv.lines) :
          /\ csv.lines # << >> => k >= 1
          /\ (csv.lines # << >> /\ csv.lines[1] = fieldnames) => k = 1
          /\ csv' = [exists |-> TRUE,
                     lines |-> << fieldnames >>
                               \o SubSeq(csv.lines, k + 1, Len(csv.lines))]
    /\ log' = Append(log, RaceEv("header", p, csv.lines))
    /\ pc' = [pc EXCEPT ![p] = "append"]
    /\ UNCHANGED <<caller, apiKey, location, qwLoc, retries, i, result, csv0, out, clock>>

\* lines 66-69: open(CSV_PATH, "a") and one record at the end of the file;
\* then the next call of write_csv_row, if any
RaceAppend(p) ==
    /\ pc[p] = "append"
    /\ csv' = [exists |-> TRUE,
               lines |-> Append(csv.lines, CsvLine(RaceRow(p, i[p] + 1)))]
    /\ log' = Append(log, RaceEv("append", p, << CsvLine(RaceRow(p, i[p] + 1)) >>))
    /\ i' = [i EXCEPT ![p] = i[p] + 1]
    /\ pc' = [pc EXCEPT ![p] = IF i[p] + 1 < MaxRows THEN "exists" ELSE "done"]
    /\ UNCHANGED <<caller, apiKey, location, qwLoc, retries, result, csv0, out, clock>>

InitRace ==
    /\ pc = [p \in Invocations |-> "exists"]
    /\ caller = "race"
    /\ apiKey = ""
    /\ location = DefaultLocation
    /\ qwLoc = location
    /\ retries = DefaultRetries
    /\ i = [p \in Invocations |-> 0]
    /\ result = [p \in Invocations |-> FALSE]
    /\ csv0 \in InitialFiles
    /\ csv = csv0
    /\ out = << >>
    /\ log = << >>
    /\ clock = 0

NextRace ==
    \E p \in Invocations :
       \/ RaceExists(p)
       \/ RaceOpenW(p)
       \/ RaceWriteHeader(p)
       \/ RaceAppend(p)

SpecRace == InitRace /\ [][NextRace]_vars

(***************************************************************************)
(* C17, as claimed: when two invocations overlap, every record one of them *)
(* has appended stays in the file, the open for writing never cuts a file  *)
(* that holds a header or records, and the header is written at most once. *)
(***************************************************************************)
FileLines == { csv.lines[k] : k \in 1..Len(csv.lines) }

C17_Original ==
    caller = "race" =>
       /\ \A k \in At("append") : log[k].lines[1] \in FileLines
       /\ \A k \in At("open_w") : log[k].lines = << >>
       /\ Count("header") <= 1

====
